---- MODULE Spec2Model ----
(***************************************************************************)
(* Model of src/MRDS/find_lc_spearman_significance.py: the four library    *)
(* functions rz_ci, rho_rxy_rxz, dependent_corr, independent_corr and the  *)
(* command-line sweep under `if __name__ == "__main__"`.                   *)
(*                                                                         *)
(* Numbers.  Correlations are decimal fractions; the model holds them as   *)
(* integers counting thousandths (Unit), the resolution of the sweep's     *)
(* gap grid.  Every quantity the code derives from them by + - * / is a    *)
(* rational number and is computed exactly, on arbitrary-size integers     *)
(* (the Big operators below; TLC's own integers are 32 bits wide).  The    *)
(* IEEE-754 rounding of the code's doubles is not modelled.  A square      *)
(* root, a logarithm and a distribution tail are kept in closed form (the  *)
(* record says which function of which exact rational the value is), so    *)
(* that signs, zeros, equalities and the comparisons the code makes are    *)
(* decided exactly.                                                        *)
(***************************************************************************)
EXTENDS Integers, Sequences, FiniteSets, TLC

VARIABLES call, result, args, lc, i, p, done, pc, out

vars == <<call, result, args, lc, i, p, done, pc, out>>

(***************************************************************************)
(* Arbitrary-size integers: [s |-> sign, m |-> magnitude], the magnitude a *)
(* little-endian sequence of base-BBase limbs without leading zeros.       *)
(***************************************************************************)
BBase == 100 * 100

Abs(k) == IF k < 0 THEN -k ELSE k

Sgn(k) == IF k < 0 THEN -1 ELSE IF k > 0 THEN 1 ELSE 0

Max2(a, b) == IF a >= b THEN a ELSE b

Min2(a, b) == IF a <= b THEN a ELSE b

Limb(x, j) == IF 1 <= j /\ j <= Len(x) THEN x[j] ELSE 0

\* x without its leading (most significant) zero limbs
MagTrim(x) ==
  LET nz == {k \in 1..Len(x) : x[k] # 0}
  IN  IF nz = {} THEN <<>>
      ELSE SubSeq(x, 1, CHOOSE k \in nz : \A l \in nz : l <= k)

\* a natural number below BBase^3
MagOfNat(k) ==
  MagTrim(<<k % BBase, (k \div BBase) % BBase, k \div (BBase * BBase)>>)

\* The limbs of the number whose k-th limb sum is e[k], each sum in
\* 0..2*BBase-2: a carry (of 1) enters limb k when some lower limb sum
\* reaches BBase and every limb sum between them is at least BBase-1.
CarryIn(e, k) ==
  IF \E j \in 1..(k - 1) :
       e[j] >= BBase /\ \A l \in (j + 1)..(k - 1) : e[l] >= BBase - 1
  THEN 1 ELSE 0

MagCarry(e) ==
  MagTrim(SubSeq([k \in 1..(Len(e) + 1) |-> (Limb(e, k) + CarryIn(e, k)) % BBase],
                 1, Len(e) + 1))

MagAdd(x, y) ==
  LET len == Max2(Len(x), Len(y))
  IN  MagCarry(SubSeq([k \in 1..len |-> Limb(x, k) + Limb(y, k)], 1, len))

\* x - y for x >= y: a borrow enters limb k when some lower limb
\* difference is negative and every one between them is at most 0
BorrowIn(d, k) ==
  IF \E j \in 1..(k - 1) : d[j] < 0 /\ \A l \in (j + 1)..(k - 1) : d[l] <= 0
  THEN 1 ELSE 0

MagSub(x, y) ==
  LET len == Len(x)
      d == SubSeq([k \in 1..len |-> x[k] - Limb(y, k)], 1, len)
  IN  MagTrim(SubSeq([k \in 1..len |-> (d[k] - BorrowIn(d, k) + BBase) % BBase],
                     1, len))

MagCmp(x, y) ==
  IF Len(x) < Len(y) THEN -1
  ELSE IF Len(x) > Len(y) THEN 1
  ELSE LET ne == {k \in 1..Len(x) : x[k] # y[k]}
       IN  IF ne = {} THEN 0
           ELSE LET top == CHOOSE k \in ne : \A l \in ne : l <= k
                IN  IF x[top] < y[top] THEN -1 ELSE 1

\* the sum of x[a] * y[k + 1 - a] for a in lo..hi
RECURSIVE ConvSum(_, _, _, _, _)
ConvSum(x, y, k, lo, hi) ==
  IF lo > hi THEN 0
  ELSE IF lo = hi THEN x[lo] * y[k + 1 - lo]
  ELSE LET mid == (lo + hi) \div 2
       IN  ConvSum(x, y, k, lo, mid) + ConvSum(x, y, k, mid + 1, hi)

\* Schoolbook product by columns: column k holds the sum c[k] of the limb
\* products x[a] * y[b] with a + b = k + 1; c[k] = c0 + c1*BBase + c2*BBase^2
\* is spread over three columns, and the column sums once more over two,
\* which leaves limb sums of at most BBase + 1 for MagCarry.
MagMul(x, y) ==
  LET len == Len(x) + Len(y)
      c == SubSeq([k \in 1..len |->
                     ConvSum(x, y, k, Max2(1, k + 1 - Len(y)), Min2(Len(x), k))],
                  1, len)
      d == SubSeq([k \in 1..(len + 2) |->
                     (Limb(c, k) % BBase)
                     + ((Limb(c, k - 1) \div BBase) % BBase)
                     + (Limb(c, k - 2) \div (BBase * BBase))],
                  1, len + 2)
      e == SubSeq([k \in 1..(len + 3) |->
                     (Limb(d, k) % BBase) + (Limb(d, k - 1) \div BBase)],
                  1, len + 3)
  IN  IF x = <<>> \/ y = <<>> THEN <<>> ELSE MagCarry(e)

Big(k) == [s |-> Sgn(k), m |-> MagOfNat(Abs(k))]

BigZero == [s |-> 0, m |-> <<>>]

BigOne == [s |-> 1, m |-> <<1>>]

BNeg(x) == [s |-> -x.s, m |-> x.m]

BAbs(x) == [s |-> Abs(x.s), m |-> x.m]

BMul(x, y) ==
  IF x.s * y.s = 0 THEN BigZero
  ELSE [s |-> x.s * y.s, m |-> MagMul(x.m, y.m)]

BAdd(x, y) ==
  IF x.s = 0 THEN y
  ELSE IF y.s = 0 THEN x
  ELSE IF x.s = y.s THEN [s |-> x.s, m |-> MagAdd(x.m, y.m)]
  ELSE LET c == MagCmp(x.m, y.m)
       IN  IF c = 0 THEN BigZero
           ELSE IF c > 0 THEN [s |-> x.s, m |-> MagSub(x.m, y.m)]
           ELSE [s |-> y.s, m |-> MagSub(y.m, x.m)]

BSub(x, y) == BAdd(x, BNeg(y))

BLess(x, y) == BSub(x, y).s < 0

BSq(x) == BMul(x, x)

BCube(x) == BMul(x, BMul(x, x))

(***************************************************************************)
(* Floating-point values as the code can hold them.  k is "nan", "pinf",   *)
(* "ninf" or "fin"; a finite value names, in form, the closed form it is:  *)
(*   "ratio"  num/den                                   (rho_rxy_rxz)      *)
(*   "sqrt"   sgn * sqrt(num/den)                       (t2 of steiger)    *)
(*   "lnq"    (1/2) ln(num/den) / sqrt(sn/sd)           (z of fisher)      *)
(*   "tail"   tails * (1 - F(|x|)), x the "sqrt" or "lnq" value of the     *)
(*            same fields, F Student's t with df degrees of freedom, or    *)
(*            the standard normal when df = 0                              *)
(*   "zero"   0.0                                                          *)
(*   "zou"    a bound of a Zou interval, sgn -1 lower and +1 upper         *)
(* All values carry the same fields, so that any two can be compared.      *)
(***************************************************************************)
Unit == 1000

Blank ==
  [k |-> "fin", form |-> "zero", sgn |-> 0, num |-> BigZero, den |-> BigOne,
   sn |-> 0, sd |-> 1, tails |-> 0, df |-> 0, of |-> "none"]

NaN == [Blank EXCEPT !.k = "nan", !.form = "none"]

PosInf == [Blank EXCEPT !.k = "pinf", !.form = "none", !.sgn = 1]

NegInf == [Blank EXCEPT !.k = "ninf", !.form = "none", !.sgn = -1]

Zero == Blank

IsNaN(v) == v.k = "nan"

IsFinite(v) == v.k = "fin"

None == <<>>

Some(v) == <<v>>

(***************************************************************************)
(* What a call ends in: an exception raised, or a value returned.          *)
(***************************************************************************)
Raise(err) ==
  [kind |-> "raise", err |-> err, shape |-> "none", a |-> NaN, b |-> NaN]

Return(shape, a, b) ==
  [kind |-> "return", err |-> "none", shape |-> shape, a |-> a, b |-> b]

(***************************************************************************)
(* math.tanh (line 18 imports it from math, not from numpy): it takes one  *)
(* float.  Given the tuple (zl, zu), as at line 26, it raises TypeError.   *)
(***************************************************************************)
math_tanh(x) ==
  IF x.tuple
  THEN Raise("TypeError")
  ELSE Return("scalar", [Blank EXCEPT !.form = "zou"], Blank)

(***************************************************************************)
(* rz_ci(r, n, conf_level), lines 21-26.  r in thousandths, size the       *)
(* sample size, conf_level None or Some(thousandths).                      *)
(*   line 22  1/(n - 3) divides by zero at n = 3; math.pow of a negative   *)
(*            base with exponent .5 raises ValueError (n < 3)              *)
(*   line 23  1 - conf_level raises TypeError when conf_level is None;     *)
(*            norm.ppf itself never raises                                 *)
(*   line 24  math.atanh raises ValueError outside (-1, 1)                 *)
(*   line 26  tanh((zl, zu))                                               *)
(***************************************************************************)
rz_ci(r, size, conf_level) ==
  IF size = 3 THEN Raise("ZeroDivisionError")
  ELSE IF size < 3 THEN Raise("ValueError")
  ELSE IF conf_level = None THEN Raise("TypeError")
  ELSE IF Abs(r) >= Unit THEN Raise("ValueError")
  ELSE math_tanh([tuple |-> TRUE, r |-> r, size |-> size, conf |-> conf_level])

(***************************************************************************)
(* rho_rxy_rxz(rxy, rxz, ryz), lines 28-31, on Python floats.  With the    *)
(* arguments a, b, c in thousandths (K = Unit):                            *)
(*   num = ((2Kc - ab)(K^2 - a^2 - b^2 - c^2) + 2Kc^3) / (2K^4)            *)
(*   den = (K^2 - a^2)(K^2 - b^2) / K^4                                    *)
(* num/float(den) raises ZeroDivisionError when den is 0.                  *)
(***************************************************************************)
rho_num(rxy, rxz, ryz) ==
  BAdd(BMul(Big(2 * Unit * ryz - rxy * rxz),
            Big(Unit * Unit - rxy * rxy - rxz * rxz - ryz * ryz)),
       BMul(Big(2 * Unit), BCube(Big(ryz))))

rho_den(rxy, rxz) ==
  BMul(Big(2), BMul(Big(Unit * Unit - rxy * rxy), Big(Unit * Unit - rxz * rxz)))

\* line 31: num/float(den)
rho_quot(nu, de) ==
  IF de.s = 0
  THEN Raise("ZeroDivisionError")
  ELSE Return("scalar",
              [Blank EXCEPT !.form = "ratio", !.sgn = nu.s * de.s,
                            !.num = BAbs(nu), !.den = BAbs(de)],
              Blank)

rho_rxy_rxz(rxy, rxz, ryz) ==
  rho_quot(rho_num(rxy, rxz, ryz), rho_den(rxy, rxz))

(***************************************************************************)
(* The steiger branch of dependent_corr, lines 46-59.  With xy, xz, yz in  *)
(* thousandths (K = Unit) and n the sample size:                           *)
(*   determin (line 47) = determin(xy, xz, yz) / K^3                       *)
(*   av ** 2 * cube (lines 48-50) = av2_cube(xy, xz, yz) / (4 K^5)         *)
(*   e (line 50) = e_num(yz, n) / e_den(xy, xz, yz, n)       when n # 3    *)
(* and the denominator of line 50 is zero exactly when e_den is.           *)
(***************************************************************************)
determin(xy, xz, yz) ==
  BAdd(BSub(BCube(Big(Unit)),
            BMul(Big(Unit), Big(xy * xy + xz * xz + yz * yz))),
       BMul(Big(2 * xy), Big(xz * yz)))

av2_cube(xy, xz, yz) ==
  BMul(BSq(Big(xy + xz)), BCube(Big(Unit - yz)))

e_num(yz, size) ==
  BMul(Big(4 * (size - 1) * (size - 3)),
       BMul(Big(Unit + yz), BSq(BSq(Big(Unit)))))

e_den(xy, xz, yz, size) ==
  BAdd(BMul(Big(8 * (size - 1)), BMul(BSq(Big(Unit)), determin(xy, xz, yz))),
       BMul(Big(size - 3), av2_cube(xy, xz, yz)))

(***************************************************************************)
(* Line 50.  2 * (n - 1)/(n - 3) is a division of Python ints: n = 3       *)
(* raises ZeroDivisionError.  A zero denominator of the outer division     *)
(* raises ZeroDivisionError on Python floats; when xy and xz are           *)
(* numpy.float64 (npf, as in the sweep, whose i comes from np.arange), it  *)
(* gives inf, -inf or nan by the sign of the numerator.                    *)
(***************************************************************************)
e_quot(nu, de, size, npf) ==
  IF size = 3 THEN Raise("ZeroDivisionError")
  ELSE IF de.s = 0
  THEN IF ~npf THEN Raise("ZeroDivisionError")
       ELSE Return("scalar",
                   IF nu.s > 0 THEN PosInf ELSE IF nu.s < 0 THEN NegInf ELSE NaN,
                   Blank)
  ELSE Return("scalar",
              [Blank EXCEPT !.form = "ratio", !.sgn = nu.s * de.s,
                            !.num = BAbs(nu), !.den = BAbs(de)],
              Blank)

steiger_e(xy, xz, yz, size, npf) ==
  e_quot(e_num(yz, size), e_den(xy, xz, yz, size), size, npf)

\* the test of line 51 written e <= 0
steiger_degenerate_le(e) == e.k = "ninf" \/ (e.k = "fin" /\ e.sgn <= 0)

\* line 51: e < 0 (false for nan)
steiger_degenerate(e) == e.k = "ninf" \/ (e.k = "fin" /\ e.sgn < 0)

\* line 53: t2 = d * np.sqrt(e), d = xy - xz (line 46), for e not below 0
steiger_t2(xy, xz, e) ==
  IF e.k = "nan" THEN NaN
  ELSE IF e.k = "pinf"
  THEN IF xy > xz THEN PosInf ELSE IF xy < xz THEN NegInf ELSE NaN
  ELSE IF xy = xz \/ e.sgn = 0
  THEN [Blank EXCEPT !.form = "sqrt"]
  ELSE [Blank EXCEPT !.form = "sqrt", !.sgn = Sgn(xy - xz),
                     !.num = BMul(BSq(Big(xy - xz)), e.num),
                     !.den = BMul(BSq(Big(Unit)), e.den)]

\* lines 56-57 left out: p stays the one-tailed value
double_never(pv, twotailed) == pv

\* lines 56-57 and 97-98: if twotailed: p *= 2
double_if_twotailed(pv, twotailed) ==
  IF twotailed /\ pv.k = "fin" /\ pv.form = "tail"
  THEN [pv EXCEPT !.tails = 2]
  ELSE pv

\* line 54: 1 - t.cdf(abs(t2), n - 2); scipy gives nan for df <= 0
steiger_p(t2, size) ==
  IF size - 2 <= 0 \/ t2.k = "nan" THEN NaN
  ELSE IF t2.k \in {"pinf", "ninf"} THEN Zero
  ELSE [t2 EXCEPT !.form = "tail", !.of = "sqrt", !.sgn = Abs(t2.sgn),
                  !.tails = 1, !.df = size - 2]

\* lines 46-59
\* lines 54-59
steiger_return(t2, size, twotailed) ==
  Return("stat_p", t2, double_if_twotailed(steiger_p(t2, size), twotailed))

\* lines 51-59, e the outcome of line 50
steiger_after_e(xy, xz, e, size, twotailed) ==
  IF e.kind = "raise" THEN e
  ELSE IF steiger_degenerate(e.a) THEN Return("stat_p", NaN, NaN)
  ELSE steiger_return(steiger_t2(xy, xz, e.a), size, twotailed)

dependent_steiger(xy, xz, yz, size, twotailed, npf) ==
  steiger_after_e(xy, xz, steiger_e(xy, xz, yz, size, npf), size, twotailed)

\* lines 61-70; every rz_ci call precedes the rho_rxy_rxz call
\* lines 61-62
default_conf(conf_level) == IF conf_level = None THEN Some(950) ELSE conf_level

\* lines 63-70 and 102-108, I1, I2 and rho the outcomes of the calls made
zou_interval(I1, I2, rho) ==
  IF I1.kind = "raise" THEN I1
  ELSE IF I2.kind = "raise" THEN I2
  ELSE IF rho.kind = "raise" THEN rho
  ELSE Return("interval",
              [Blank EXCEPT !.form = "zou", !.sgn = -1],
              [Blank EXCEPT !.form = "zou", !.sgn = 1])

dependent_zou(xy, xz, yz, size, conf_level) ==
  zou_interval(rz_ci(xy, size, default_conf(conf_level)),
               rz_ci(xz, size, default_conf(conf_level)),
               rho_rxy_rxz(xy, xz, yz))

\* dependent_corr with the final else taken for the steiger branch
dependent_corr_no_else(xy, xz, yz, size, twotailed, conf_level, method, npf) ==
  IF method = "zou"
  THEN dependent_zou(xy, xz, yz, size, conf_level)
  ELSE dependent_steiger(xy, xz, yz, size, twotailed, npf)

(***************************************************************************)
(* dependent_corr(xy, xz, yz, n, twotailed, conf_level, method), lines     *)
(* 33-72; npf says that xy and xz are numpy.float64 rather than float.     *)
(***************************************************************************)
dependent_corr(xy, xz, yz, size, twotailed, conf_level, method, npf) ==
  IF method = "steiger"
  THEN dependent_steiger(xy, xz, yz, size, twotailed, npf)
  ELSE IF method = "zou"
  THEN dependent_zou(xy, xz, yz, size, conf_level)
  ELSE Raise("Exception")

(***************************************************************************)
(* The fisher branch of independent_corr, lines 88-100.                    *)
(***************************************************************************)
\* lines 88-89: 0.5 * np.log((1 + r)/(1 - r)) on a Python float r.  The
\* division raises at r = 1; np.log gives -inf at 0 and nan below 0.  A
\* finite result is (1/2) ln(num/den).
fisher_z(r) ==
  IF r = Unit THEN Raise("ZeroDivisionError")
  ELSE IF r = -Unit THEN Return("scalar", NegInf, Blank)
  ELSE IF Abs(r) > Unit THEN Return("scalar", NaN, Blank)
  ELSE Return("scalar",
              [Blank EXCEPT !.form = "lnq", !.sgn = Sgn(r),
                            !.num = Big(Unit + r), !.den = Big(Unit - r)],
              Blank)

\* lines 90-91 left out: n2 stays as passed
default_n2_missing(size, n2) == n2

\* lines 90-91: if n2 is None: n2 = n
default_n2(size, n2) == IF n2 = None THEN Some(size) ELSE n2

\* line 93: np.sqrt(1/(n - 3) + 1/(n2 - 3)); the radicand is
\* (n + n2 - 6)/((n - 3)(n2 - 3)), kept as sn/sd with sd > 0.  Each
\* quotient is a division of Python ints; np.sqrt of a negative is nan.
se_diff_r(size, n2) ==
  IF n2 = None THEN Raise("TypeError")
  ELSE IF size = 3 \/ n2[1] = 3 THEN Raise("ZeroDivisionError")
  ELSE LET d == (size - 3) * (n2[1] - 3)
           u == (size + n2[1] - 6) * Sgn(d)
       IN  IF u < 0 THEN Return("scalar", NaN, Blank)
           ELSE Return("scalar",
                       [Blank EXCEPT !.form = "sqrt", !.sgn = Sgn(u),
                                     !.sn = u, !.sd = Abs(d)],
                       Blank)

\* (1/2) ln(nu/de), of the sign of nu - de
lnq_value(nu, de) ==
  [Blank EXCEPT !.form = "lnq", !.sgn = BSub(nu, de).s, !.num = nu, !.den = de]

\* line 94: diff = xy_z - xz_z
z_diff(xy_z, xz_z) ==
  IF xy_z.k = "nan" \/ xz_z.k = "nan" THEN NaN
  ELSE IF xy_z.k = "ninf" THEN (IF xz_z.k = "ninf" THEN NaN ELSE NegInf)
  ELSE IF xz_z.k = "ninf" THEN PosInf
  ELSE lnq_value(BMul(xy_z.num, xz_z.den), BMul(xy_z.den, xz_z.num))

\* line 95: diff / se_diff_r, a division of numpy.float64 values
z_quot(diff, se) ==
  IF diff.k = "nan" \/ se.k = "nan" THEN NaN
  ELSE IF se.sgn = 0
  THEN IF diff.k = "fin" /\ diff.sgn = 0 THEN NaN
       ELSE IF diff.sgn > 0 THEN PosInf ELSE NegInf
  ELSE IF diff.k # "fin" THEN diff
  ELSE [diff EXCEPT !.sn = se.sn, !.sd = se.sd]

\* line 95 without abs
z_abs_missing(q) == q

\* line 95: abs(...)
z_abs(q) ==
  IF q.k = "ninf" THEN PosInf
  ELSE IF q.k = "fin" /\ q.sgn < 0
  THEN [q EXCEPT !.sgn = 1, !.num = q.den, !.den = q.num]
  ELSE q

\* line 96: 1 - norm.cdf(z)
fisher_p(z) ==
  IF z.k = "nan" THEN NaN
  ELSE IF z.k \in {"pinf", "ninf"} THEN Zero
  ELSE [z EXCEPT !.form = "tail", !.of = "lnq", !.tails = 1]

\* lines 96-100
fisher_return(z, twotailed) ==
  Return("stat_p", z, double_if_twotailed(fisher_p(z), twotailed))

\* lines 88-100, xy_z, xz_z and se the outcomes of lines 88, 89 and 93
fisher_after_z(xy_z, xz_z, se, twotailed) ==
  IF xy_z.kind = "raise" THEN xy_z
  ELSE IF xz_z.kind = "raise" THEN xz_z
  ELSE IF se.kind = "raise" THEN se
  ELSE fisher_return(z_abs(z_quot(z_diff(xy_z.a, xz_z.a), se.a)), twotailed)

\* line 104: n - 3 inside rz_ci raises TypeError when n2 is None
rz_ci_n2(ab, n2, conf_level) ==
  IF n2 = None THEN Raise("TypeError") ELSE rz_ci(ab, n2[1], conf_level)

(***************************************************************************)
(* independent_corr(xy, ab, n, n2, twotailed, conf_level, method), lines   *)
(* 74-110.  n2 and conf_level are None or Some(value).  The zou branch     *)
(* reads n2 as passed (line 104): the default of lines 90-91 is set in the *)
(* fisher branch only.                                                      *)
(***************************************************************************)
independent_corr(xy, ab, size, n2, twotailed, conf_level, method) ==
  IF method = "fisher"
  THEN fisher_after_z(fisher_z(xy), fisher_z(ab),
                      se_diff_r(size, default_n2(size, n2)), twotailed)
  ELSE IF method = "zou"
  THEN zou_interval(rz_ci(xy, size, conf_level), rz_ci_n2(ab, n2, conf_level),
                    Return("scalar", Blank, Blank))
  ELSE Raise("Exception")

(***************************************************************************)
(* Library calls.  Init draws one call, with its arguments, from the sets  *)
(* below; the action of the called function applies it.  npf says that the *)
(* correlations of a dependent_corr call are numpy.float64 rather than     *)
(* Python floats, which decides what a zero divisor does.  Correlations are *)
(* in thousandths and include the boundary values -1 and 1; sample sizes   *)
(* include the values at and below 3 where 1/(n - 3) is singular.          *)
(***************************************************************************)
CorrVals == {-1000, -990, 0, 500, 990, 1000}

SizeVals == {1, 2, 3, 4, 10}

Methods == {"steiger", "zou", "fisher", "bogus"}

ConfVals == {None, Some(950)}

NoCall ==
  [fn |-> "none", xy |-> 0, xz |-> 0, yz |-> 0, n |-> 0, n2 |-> None,
   twotailed |-> FALSE, conf_level |-> None, method |-> "none",
   npf |-> FALSE]

Pending == Raise("pending")

NoArgs == [n |-> 0, lc_max |-> 0, midval |-> 0, confidence_thresh |-> 0]

SweepIdle ==
  /\ args = NoArgs
  /\ lc = None
  /\ i = None
  /\ p = None
  /\ done = FALSE
  /\ out = None

Init ==
  /\ \/ call \in
          {[NoCall EXCEPT !.fn = "rz_ci", !.xy = r, !.n = size, !.conf_level = cl] :
             r \in CorrVals, size \in SizeVals, cl \in ConfVals}
     \/ call \in
          {[NoCall EXCEPT !.fn = "rho_rxy_rxz", !.xy = rxy, !.xz = rxz, !.yz = ryz] :
             rxy \in CorrVals, rxz \in CorrVals, ryz \in CorrVals}
     \/ call \in
          {[NoCall EXCEPT !.fn = "dependent_corr", !.xy = xy, !.xz = xz, !.yz = yz,
                          !.n = size, !.twotailed = tt, !.conf_level = cl,
                          !.method = m, !.npf = np] :
             xy \in CorrVals, xz \in CorrVals, yz \in CorrVals, size \in SizeVals,
             tt \in BOOLEAN, cl \in ConfVals, m \in Methods, np \in BOOLEAN}
     \/ call \in
          {[NoCall EXCEPT !.fn = "independent_corr", !.xy = xy, !.xz = ab,
                          !.n = size, !.n2 = m2, !.twotailed = tt,
                          !.conf_level = cl, !.method = m] :
             xy \in CorrVals, ab \in CorrVals, size \in SizeVals,
             m2 \in {None} \cup {Some(k) : k \in SizeVals},
             tt \in BOOLEAN, cl \in ConfVals, m \in Methods}
  /\ result = Pending
  /\ pc = "called"
  /\ SweepIdle

Returned(r) ==
  /\ result' = r
  /\ pc' = "returned"
  /\ UNCHANGED <<call, args, lc, i, p, done, out>>

Apply_rz_ci ==
  /\ pc = "called"
  /\ call.fn = "rz_ci"
  /\ Returned(rz_ci(call.xy, call.n, call.conf_level))

Apply_rho_rxy_rxz ==
  /\ pc = "called"
  /\ call.fn = "rho_rxy_rxz"
  /\ Returned(rho_rxy_rxz(call.xy, call.xz, call.yz))

Apply_dependent_corr ==
  /\ pc = "called"
  /\ call.fn = "dependent_corr"
  /\ Returned(dependent_corr(call.xy, call.xz, call.yz, call.n, call.twotailed,
                             call.conf_level, call.method, call.npf))

Apply_independent_corr ==
  /\ pc = "called"
  /\ call.fn = "independent_corr"
  /\ Returned(independent_corr(call.xy, call.xz, call.n, call.n2, call.twotailed,
                               call.conf_level, call.method))

Next ==
  \/ Apply_rz_ci
  \/ Apply_rho_rxy_rxz
  \/ Apply_dependent_corr
  \/ Apply_independent_corr

Spec == Init /\ [][Next]_vars

(***************************************************************************)
(* The sweep, lines 117-145.                                               *)
(*                                                                         *)
(* args holds the parsed command line (lines 129-133): n an integer,       *)
(* lc_max and midval in thousandths, confidence_thresh in units of         *)
(* 1/TScale.  lc, i, p and out are None until the program binds them.      *)
(* pc is the program's position:                                           *)
(*   "outer"        at the head of `for lc in ...` (line 136)              *)
(*   "inner0"       at the head of `for i in ...`, no i taken yet          *)
(*   "inner"        at the head of `for i in ...` after a pass of its body *)
(*   "after_inner"  at `if done:` (line 143)                               *)
(*   "print"        at line 145                                            *)
(*   "exit"         after line 145;  "crashed" after an uncaught exception *)
(***************************************************************************)
TScale == 10 * Unit

LcStep == 1

IStep == 10

\* G < wn/wd for G = 2F(x) - 1, F Student's t with 2 degrees of freedom and
\* x = sqrt(T/U) >= 0:  G = x/sqrt(2 + x^2), so G^2 = T/(2U + T).
t2_tail_below(T, U, wn, wd) ==
  BLess(BMul(T, BSq(Big(wd))),
        BMul(BSq(Big(wn)), BAdd(BMul(Big(2), U), T)))

\* The same with 4 degrees of freedom: G = (3s - s^3)/2 with
\* s^2 = T/V, V = 4U + T, so G^2 = T (3V - T)^2 / (4 V^3).
t4_below_V(T, V, wn, wd) ==
  BLess(BMul(BMul(T, BSq(BSub(BMul(Big(3), V), T))), BSq(Big(wd))),
        BMul(BMul(Big(4), BSq(Big(wn))), BCube(V)))

t4_tail_below(T, U, wn, wd) == t4_below_V(T, BAdd(BMul(Big(4), U), T), wn, wd)

(***************************************************************************)
(* Line 140: p > confidence_thresh, thresh in units of 1/TScale.  A nan    *)
(* compares false.  A tail value tails * (1 - F(x)) exceeds c exactly when *)
(* 2F(x) - 1 < 1 - 2c/tails = wn/wd; 2F - 1 is 0 at x = 0 and lies in      *)
(* [0, 1).  The comparison is decided for the t distribution with 2 and 4  *)
(* degrees of freedom (n = 4 and n = 6), whose F is algebraic.             *)
(***************************************************************************)
real_exceeds(pv, thresh) ==
  IF pv.form = "zero" THEN 0 > thresh
  ELSE LET wn == pv.tails * TScale - 2 * thresh
           wd == pv.tails * TScale
       IN  IF wn <= 0 THEN FALSE
           ELSE IF pv.sgn = 0 \/ wn >= wd THEN TRUE
           ELSE CASE pv.of = "sqrt" /\ pv.df = 2 ->
                       t2_tail_below(pv.num, pv.den, wn, wd)
                  [] pv.of = "sqrt" /\ pv.df = 4 ->
                       t4_tail_below(pv.num, pv.den, wn, wd)

\* the test of line 140 written `not p <= confidence_thresh`: true of a nan
p_not_at_most(pv, thresh) ==
  IF pv.k = "nan" THEN TRUE ELSE real_exceeds(pv, thresh)

p_exceeds(pv, thresh) ==
  IF pv.k = "nan" THEN FALSE ELSE real_exceeds(pv, thresh)

\* line 145: "%0.3f" % lc, for lc >= 0 a whole number of thousandths:
\* the integer part and the three decimals
Format3(v) == <<v \div Unit, v % Unit>>

\* np.arange(lc_max, 0.000, -0.001), line 136: the element after cur
NextLc(cur, lc_max) ==
  LET cand == IF cur = None THEN lc_max ELSE cur[1] - LcStep
  IN  IF cand > 0 THEN Some(cand) ELSE None

\* np.arange(0, 1 - lc, 0.01), line 137: the element after cur
NextI(cur, gap) ==
  LET cand == IF cur = None THEN 0 ELSE cur[1] + IStep
  IN  IF cand < Unit - gap THEN Some(cand) ELSE None

SweepCall(j, gap) ==
  [NoCall EXCEPT !.fn = "dependent_corr", !.xy = j, !.xz = j + gap,
                 !.yz = args.midval, !.n = args.n, !.method = "steiger",
                 !.npf = TRUE]

MaxLcMax == 3

SweepSizes == {3, 4, 6}

MidVals == {-900, 900}

ThreshVals == {500, 4996, 5000}

SweepInit ==
  /\ args \in [n : SweepSizes, lc_max : 0..MaxLcMax, midval : MidVals,
               confidence_thresh : ThreshVals]
  /\ call = NoCall
  /\ result = Pending
  /\ lc = None
  /\ i = None
  /\ p = None
  /\ done = FALSE
  /\ out = None
  /\ pc = "outer"

\* line 136: take the next gap and enter the inner loop, or leave the loop
OuterLoop ==
  /\ pc = "outer"
  /\ LET nx == NextLc(lc, args.lc_max)
     IN  IF nx = None
         THEN pc' = "print" /\ lc' = lc
         ELSE pc' = "inner0" /\ lc' = nx
  /\ UNCHANGED <<call, result, args, i, p, done, out>>

\* lines 137-142: take the next i and run the body, or leave the loop
\* lines 138-142, r the outcome of the call of line 138
LoopBody(r) ==
  /\ result' = r
  /\ IF r.kind = "raise"
     THEN pc' = "crashed" /\ UNCHANGED <<p, done>>
     ELSE /\ p' = Some(r.b)
          /\ IF p_exceeds(r.b, args.confidence_thresh)
             THEN done' = TRUE /\ pc' = "after_inner"
             ELSE done' = done /\ pc' = "inner"

\* line 137 with nx the next element of the range, if any
InnerStep(nx) ==
  IF nx = None
  THEN /\ pc' = "after_inner"
       /\ UNCHANGED <<call, result, i, p, done>>
  ELSE /\ i' = nx
       /\ call' = SweepCall(nx[1], lc[1])
       /\ LoopBody(dependent_corr(nx[1], nx[1] + lc[1], args.midval, args.n,
                                  FALSE, None, "steiger", TRUE))

InnerLoop ==
  /\ pc \in {"inner0", "inner"}
  /\ InnerStep(NextI(IF pc = "inner0" THEN None ELSE i, lc[1]))
  /\ UNCHANGED <<args, lc, out>>

\* lines 143-144
AfterInner ==
  /\ pc = "after_inner"
  /\ pc' = IF done THEN "print" ELSE "outer"
  /\ UNCHANGED <<call, result, args, lc, i, p, done, out>>

\* line 145; lc is unbound (NameError) when the outer range was empty
PrintLc ==
  /\ pc = "print"
  /\ IF lc = None
     THEN /\ pc' = "crashed"
          /\ result' = Raise("NameError")
          /\ out' = out
     ELSE /\ pc' = "exit"
          /\ result' = result
          /\ out' = Some(Format3(lc[1]))
  /\ UNCHANGED <<call, args, lc, i, p, done>>

SweepNext ==
  \/ OuterLoop
  \/ InnerLoop
  \/ AfterInner
  \/ PrintLc

SweepSpec == SweepInit /\ [][SweepNext]_vars

(***************************************************************************)
(* Properties of the library functions, checked under Spec.                *)
(***************************************************************************)
DepDone == pc = "returned" /\ call.fn = "dependent_corr"

IndDone == pc = "returned" /\ call.fn = "independent_corr"

SteigerDone == DepDone /\ call.method = "steiger"

InsideUnit(r) == -Unit < r /\ r < Unit

ValidConf(cl) == cl # None /\ 0 < cl[1] /\ cl[1] < Unit

NanPair == Return("stat_p", NaN, NaN)

\* e of line 50 for the call in hand
CallE == steiger_e(call.xy, call.xz, call.yz, call.n, call.npf)

ENeg(e) ==
  e.kind = "return" /\ (e.a.k = "ninf" \/ (e.a.k = "fin" /\ e.a.sgn < 0))

EFiniteNonNeg(e) == e.kind = "return" /\ e.a.k = "fin" /\ e.a.sgn >= 0

ENonNeg(e) == EFiniteNonNeg(e) \/ (e.kind = "return" /\ e.a.k = "pinf")

\* C1: a dependent_corr call whose method is neither 'steiger' nor 'zou',
\* and an independent_corr call whose method is neither 'fisher' nor 'zou',
\* raises the 'Wrong method!' exception and returns nothing, whatever the
\* other arguments are.
C1_InvalidMethodRaises ==
  /\ (DepDone /\ call.method \notin {"steiger", "zou"})
       => result = Raise("Exception")
  /\ (IndDone /\ call.method \notin {"fisher", "zou"})
       => result = Raise("Exception")

C1_Witness ==
  /\ DepDone
  /\ call.method = "bogus"
  /\ call.n = 10
  /\ result.kind = "raise"
  /\ result.err = "Exception"

C3_KindByMethod ==
  /\ ( /\ DepDone
       /\ call.method \in {"steiger", "zou"}
       /\ InsideUnit(call.xy) /\ InsideUnit(call.xz) /\ InsideUnit(call.yz)
       /\ call.n > 3
       /\ (call.conf_level = None \/ ValidConf(call.conf_level)) )
       => /\ result.kind = "return"
          /\ result.shape = IF call.method = "zou" THEN "interval" ELSE "stat_p"
  /\ ( /\ IndDone
       /\ call.method \in {"fisher", "zou"}
       /\ InsideUnit(call.xy) /\ InsideUnit(call.xz)
       /\ call.n > 3
       /\ call.n2 # None /\ call.n2[1] > 3
       /\ ValidConf(call.conf_level) )
       => /\ result.kind = "return"
          /\ result.shape = IF call.method = "zou" THEN "interval" ELSE "stat_p"

\* C4: for r strictly inside (-1, 1), n > 3 and a confidence level in
\* (0, 1), rz_ci returns a pair (lower, upper) of finite bounds, lower
\* first.
C4_OrderedInterval ==
  ( /\ pc = "returned"
    /\ call.fn = "rz_ci"
    /\ InsideUnit(call.xy)
    /\ call.n > 3
    /\ ValidConf(call.conf_level) )
    => /\ result.kind = "return"
       /\ result.shape = "interval"
       /\ IsFinite(result.a) /\ IsFinite(result.b)
       /\ result.a.sgn <= result.b.sgn

IdentityCall ==
  /\ SteigerDone
  /\ call.xy = call.xz
  /\ InsideUnit(call.xy) /\ InsideUnit(call.yz)
  /\ call.n > 3
  /\ call.twotailed

\* the statistic d * sqrt(e) with value 0
IsZeroStat(v) == v.k = "fin" /\ v.form = "sqrt" /\ v.sgn = 0

\* the p-value 2 * (1 - F(0)), which is 1
IsOne(v) == v.k = "fin" /\ v.form = "tail" /\ v.tails = 2 /\ v.sgn = 0

\* C6 as stated: every such call returns t = 0 and p = 1.
C6_Original ==
  IdentityCall =>
    (result.kind = "return" /\ IsZeroStat(result.a) /\ IsOne(result.b))

\* C6: dependent_corr(r, r, y, n, twotailed=True, method='steiger') with r
\* and y strictly inside (-1, 1) and n > 3 returns t = 0 and p = 1 when e
\* of line 50 is finite and not negative; when e is negative it returns
\* the pair (nan, nan); when the divisor of line 50 is zero it raises on
\* Python floats and returns the pair (nan, nan) on numpy.float64.
C6_IdentityWhenENonNeg ==
  IdentityCall =>
    /\ EFiniteNonNeg(CallE) =>
         (result.kind = "return" /\ IsZeroStat(result.a) /\ IsOne(result.b))
    /\ ENeg(CallE) => result = NanPair
    /\ CallE.kind = "raise" => result = CallE
    /\ (CallE.kind = "return" /\ CallE.a.k \in {"pinf", "nan"}) =>
         result = NanPair

C6_Witness ==
  /\ IdentityCall
  /\ call.xy # 0
  /\ EFiniteNonNeg(CallE)
  /\ CallE.a.sgn = 1
  /\ IsZeroStat(result.a)
  /\ IsOne(result.b)

\* the call independent_corr(xy, ab, n, n2, method='fisher') with xy and ab
\* strictly inside (-1, 1) and n, n2 > 3
SymmetryCall ==
  /\ IndDone
  /\ call.method = "fisher"
  /\ InsideUnit(call.xy) /\ InsideUnit(call.xz)
  /\ call.n > 3
  /\ call.n2 # None /\ call.n2[1] > 3

\* C7: independent_corr(xy, ab, n, n2, method='fisher') with xy and ab
\* strictly inside (-1, 1) and n, n2 > 3 returns the statistic z and the
\* p-value that independent_corr(ab, xy, n2, n, method='fisher') returns.
C7_FisherSymmetry ==
  SymmetryCall =>
    LET swapped == independent_corr(call.xz, call.xy, call.n2[1], Some(call.n),
                                    call.twotailed, call.conf_level, "fisher")
    IN  /\ result.kind = "return"
        /\ swapped.kind = "return"
        /\ result.a = swapped.a
        /\ result.b = swapped.b

C7_Witness ==
  /\ SymmetryCall
  /\ call.xy < call.xz
  /\ call.n # call.n2[1]
  /\ result.kind = "return"
  /\ IsFinite(result.a)
  /\ result.a.sgn = 1

\* a sample size <= 3, a correlation of exactly 1 or -1 passed through the
\* Fisher transform, or rxy or rxz of exactly 1 or -1 in rho_rxy_rxz
DomainViolation ==
  \/ /\ call.fn = "rz_ci"
     /\ (call.n <= 3 \/ Abs(call.xy) = Unit)
  \/ /\ call.fn = "rho_rxy_rxz"
     /\ (Abs(call.xy) = Unit \/ Abs(call.xz) = Unit)
  \/ /\ call.fn = "dependent_corr"
     /\ call.method \in {"steiger", "zou"}
     /\ \/ call.n <= 3
        \/ call.method = "zou" /\ (Abs(call.xy) = Unit \/ Abs(call.xz) = Unit)
  \/ /\ call.fn = "independent_corr"
     /\ call.method \in {"fisher", "zou"}
     /\ \/ call.n <= 3
        \/ call.n2 # None /\ call.n2[1] <= 3
        \/ Abs(call.xy) = Unit
        \/ Abs(call.xz) = Unit

\* C8: a call with a sample size <= 3, or with a correlation of exactly 1
\* or -1 where the Fisher transform or rho_rxy_rxz takes it, raises or
\* returns a non-finite marker: it never returns finite numbers only.
C8_NoSilentFinite ==
  (pc = "returned" /\ DomainViolation) =>
    ~(result.kind = "return" /\ IsFinite(result.a) /\ IsFinite(result.b))

(***************************************************************************)
(* Properties of the sweep, checked under SweepSpec.                       *)
(***************************************************************************)
\* the values of i that line 137 walks for a gap
Grid(gap) == {j \in 0..(Unit - 1) : j % IStep = 0 /\ j < Unit - gap}

\* the pair (j, j + gap) has a p-value above confidence_thresh
ReturnsAbove(r) ==
  r.kind = "return" /\ ~IsNaN(r.b) /\ real_exceeds(r.b, args.confidence_thresh)

Qualifies(gap, j) ==
  ReturnsAbove(dependent_corr(j, j + gap, args.midval, args.n, FALSE, None,
                              "steiger", TRUE))

GapQualifies(gap) == \E j \in Grid(gap) : Qualifies(gap, j)

\* C9: what the sweep prints is the largest candidate gap, among lc_max,
\* lc_max - 0.001, ... down to 0.001, for which some pair (i, i + lc) of the
\* grid has a p-value above confidence_thresh: the printed gap has such a
\* pair and no larger candidate has one.
C9_PrintsLargestQualifyingGap ==
  pc = "exit" =>
    \E g \in 1..args.lc_max :
      /\ out = Some(Format3(g))
      /\ GapQualifies(g)
      /\ \A h \in (g + 1)..args.lc_max : ~GapQualifies(h)

\* C10: a nan p-value never stops the search.  The search is stopped (done)
\* only with a p-value that is a number above confidence_thresh; after any
\* other p-value, a nan included, the inner loop goes on; a gap is left
\* without done only when its grid is exhausted, and the loops are left
\* without done only when the gaps are exhausted.
C10_NanNeverStops ==
  /\ done =>
       /\ p # None
       /\ IsFinite(p[1])
       /\ real_exceeds(p[1], args.confidence_thresh)
  /\ pc = "inner" =>
       /\ ~done
       /\ p # None
       /\ (IsNaN(p[1]) \/ ~real_exceeds(p[1], args.confidence_thresh))
  /\ (pc = "after_inner" /\ ~done) => (i # None /\ NextI(i, lc[1]) = None)
  /\ (pc \in {"print", "exit"} /\ ~done) => NextLc(lc, args.lc_max) = None

C10_Witness ==
  /\ pc = "inner"
  /\ ~done
  /\ args.n > 3
  /\ result = NanPair
  /\ p = Some(NaN)
  /\ NextI(i, lc[1]) # None

====
